---- MODULE Spec2Model ----
(***************************************************************************)
(* fio-debian-benchmarking: the two text pipelines of fio_utils.           *)
(*                                                                         *)
(*   summarize_consolidated.py  parse_consolidated (the Splitter),         *)
(*                              bw_to_gbps / iops_to_k (Unit Normalizer),  *)
(*                              summarize_record (Derivation Engine)       *)
(*   parse_fio_output.py        normalize_key, emit, parse_disk_stats      *)
(*                                                                         *)
(* Python str values are TLA+ strings; Len, SubSeq and \o act on them as   *)
(* on sequences of characters.  Python's None is the empty tuple <<>> and  *)
(* a present value v is the one-element tuple <<v>>.                       *)
(***************************************************************************)
EXTENDS Integers, Sequences, FiniteSets, TLC

VARIABLES
    \* parse_consolidated (summarize_consolidated.py:53-88)
    lines,            \* the lines of the consolidated file read so far
    eof,              \* the for-loop over the file has ended and flush() ran
    run_num,          \* None or <<int>>
    current_file,     \* None or <<str>>
    current_metrics,  \* dict str -> str, a function on its keys
    job_name,         \* None or <<str>>
    records,          \* the list of Record returned
    file_at,          \* history: index in lines of the marker that set current_file, 0 if unset
    marks,            \* history: for each record, where its file marker and its flush were
    \* summarize_file / summarize_record (summarize_consolidated.py:160-245)
    file_no,          \* position of main()'s loop over args.inputs
    rec_no,           \* records of the current file already rendered
    rec,              \* None or <<metrics>>: the Record the loop body holds
    summary,          \* None or <<result of summarize_record(rec)>>
    aborted,          \* an exception left summarize_record and ended the process
    current_run,      \* summarize_file: None or <<run of the last RUN header written>>
    rendered,         \* None or <<the lines the current loop body appended to the report>>
    \* bw_to_gbps (summarize_consolidated.py:98-127)
    bw_parts,         \* history: the pieces the input string was put together from
    bw_val,           \* the argument
    bw_res,           \* None or <<result>>
    \* normalize_key (parse_fio_output.py:45-56)
    key_in, key_out, key_again,
    \* parse_disk_stats (parse_fio_output.py:190-201)
    dev, rest, disk_out,
    \* parse_file (parse_fio_output.py:204-355)
    fio_lines,        \* history: the lines of the fio output read so far
    out,              \* the list of entries emitted so far
    pct_mode,         \* None or <<"clat">>
    disk_section,     \* the flag of the disk-stats section
    fio_raised        \* an exception left parse_file

splitVars == <<lines, eof, run_num, current_file, current_metrics, job_name,
               records, file_at, marks>>
sumVars   == <<file_no, rec_no, rec, summary, aborted, current_run, rendered>>
bwVars    == <<bw_parts, bw_val, bw_res>>
keyVars   == <<key_in, key_out, key_again>>
diskVars  == <<dev, rest, disk_out>>
fileVars  == <<fio_lines, out, pct_mode, disk_section, fio_raised>>
vars      == <<splitVars, sumVars, bwVars, keyVars, diskVars, fileVars>>

(***************************************************************************)
(* Bounds of the model.                                                    *)
(***************************************************************************)
MaxLines == 5
MaxKeys == 3
MaxRecords == 2
MaxFiles == 2
MaxKeyLen == 4
MaxRestLen == 6
MaxPairs == 2
MaxFioLines == 4

(***************************************************************************)
(* Python built-ins on str.                                                *)
(***************************************************************************)
None == <<>>
Some(v) == <<v>>

\* F(v) with v evaluated once (a local assignment `x = v` followed by uses of x)
Let(v, F(_)) == CHOOSE y \in {F(x) : x \in {v}} : TRUE

\* the character of s at position i (1-based), "" outside s
Ch(s, i) == IF 1 <= i /\ i <= Len(s) THEN SubSeq(s, i, i) ELSE ""

StartsWith(s, p) == Len(s) >= Len(p) /\ SubSeq(s, 1, Len(p)) = p

EndsWith(s, p) == Len(s) >= Len(p) /\ SubSeq(s, Len(s) - Len(p) + 1, Len(s)) = p

\* str.isspace / the regex class \s, on the characters the inputs are made of
IsSpace(c) == c \in {" ", "\t"}

\* first index of character c in s at or after position i, 0 when there is none
RECURSIVE Find(_, _, _)
Find(s, c, i) ==
    IF i > Len(s) THEN 0
    ELSE IF Ch(s, i) = c THEN i
    ELSE Find(s, c, i + 1)

Contains(s, c) == Find(s, c, 1) # 0

\* s.find(sub, i) with 1-based indices: where sub first occurs at or after i, 0 if nowhere
RECURSIVE FindStr(_, _, _)
FindStr(s, sub, i) ==
    IF i + Len(sub) - 1 > Len(s) THEN 0
    ELSE IF SubSeq(s, i, i + Len(sub) - 1) = sub THEN i
    ELSE FindStr(s, sub, i + 1)

\* sub in s
HasStr(s, sub) == FindStr(s, sub, 1) # 0

\* index of the first character at or after i that is no whitespace (Len(s) + 1 if none)
RECURSIVE SkipSpace(_, _)
SkipSpace(s, i) == IF i <= Len(s) /\ IsSpace(Ch(s, i)) THEN SkipSpace(s, i + 1) ELSE i

\* index of the last character at or before j that is no whitespace (0 if none)
RECURSIVE SkipSpaceBack(_, _)
SkipSpaceBack(s, j) == IF j >= 1 /\ IsSpace(Ch(s, j)) THEN SkipSpaceBack(s, j - 1) ELSE j

\* str.strip()
Strip(s) == SubSeq(s, SkipSpace(s, 1), SkipSpaceBack(s, Len(s)))

\* s.split(c, 1): the parts before and after the first c (c occurs in s)
SplitOnce(s, c) ==
    LET i == Find(s, c, 1) IN <<SubSeq(s, 1, i - 1), SubSeq(s, i + 1, Len(s))>>

Digits == {"0", "1", "2", "3", "4", "5", "6", "7", "8", "9"}

IsDigit(c) == c \in Digits

\* end of the longest run of characters of the set cs that starts at i (i - 1 when empty)
RECURSIVE RunEnd(_, _, _)
RunEnd(s, i, cs) ==
    IF i <= Len(s) /\ Ch(s, i) \in cs THEN RunEnd(s, i + 1, cs) ELSE i - 1

\* end of the longest run of characters outside the set cs that starts at i
RECURSIVE RunEndNot(_, _, _)
RunEndNot(s, i, cs) ==
    IF i <= Len(s) /\ Ch(s, i) \notin cs THEN RunEndNot(s, i + 1, cs) ELSE i - 1

DigitVal(c) ==
    CASE c = "0" -> 0 [] c = "1" -> 1 [] c = "2" -> 2 [] c = "3" -> 3 [] c = "4" -> 4
      [] c = "5" -> 5 [] c = "6" -> 6 [] c = "7" -> 7 [] c = "8" -> 8 [] c = "9" -> 9

\* int() of the first j characters of a string of decimal digits
RECURSIVE ToIntUpTo(_, _)
ToIntUpTo(s, j) ==
    IF j = 0 THEN 0 ELSE 10 * ToIntUpTo(s, j - 1) + DigitVal(Ch(s, j))

\* int() of a string of decimal digits
ToInt(s) == ToIntUpTo(s, Len(s))

EmptyDict == [k \in {} |-> ""]

(***************************************************************************)
(* summarize_consolidated.py: parse_key_val and parse_consolidated.        *)
(***************************************************************************)
\* parse_key_val(line): None, or <<key, val>>
parse_key_val(line) ==
    IF ~Contains(line, "=") THEN None
    ELSE LET parts == SplitOnce(line, "=")
             key == Strip(parts[1])
             val == Strip(parts[2])
         IN  Some(<<key, IF Contains(val, "#") THEN Strip(SplitOnce(val, "#")[1]) ELSE val>>)

RunToken == "~~~~~~~ RUN #"

IsRunMarker(line) == StartsWith(line, RunToken)

IsFileMarker(line) == StartsWith(line, "-- ") /\ EndsWith(line, " --")

\* re.search(r'RUN #([0-9]+)', line): None, or <<int(group 1)>> of the leftmost match
RECURSIVE RunSearchFrom(_, _)
RunSearchFrom(line, i) ==
    IF i + 5 > Len(line) THEN None
    ELSE IF SubSeq(line, i, i + 4) = "RUN #" /\ IsDigit(Ch(line, i + 5))
         THEN Some(ToInt(SubSeq(line, i + 5, RunEnd(line, i + 5, Digits))))
         ELSE RunSearchFrom(line, i + 1)

RunSearch(line) == RunSearchFrom(line, 1)

\* the condition under which flush() appends a Record
FlushEmitsAlways(run, file, metrics) == run # None /\ file # None

FlushEmits(run, file, metrics) ==
    run # None /\ file # None /\ DOMAIN metrics # {}

\* current_metrics[k] = v
SetItemFirstWins(m, k, v) == IF k \in DOMAIN m THEN m ELSE (k :> v) @@ m

SetItem(m, k, v) == (k :> v) @@ m

\* Record(run=run_num, file=current_file, job_name=job_name, metrics=current_metrics):
\* the fields hold what the parser's variables held, None included
Record(run, file, job, metrics) ==
    [run |-> run, file |-> file, job_name |-> job, metrics |-> metrics]

\* flush(): the records list after the call, made by line number `at`
RecordsAfterFlush ==
    IF FlushEmits(run_num, current_file, current_metrics)
    THEN Append(records, Record(run_num, current_file, job_name, current_metrics))
    ELSE records

MarksAfterFlush(at) ==
    IF FlushEmits(run_num, current_file, current_metrics)
    THEN Append(marks, [file_at |-> file_at, flush_at |-> at])
    ELSE marks

\* The lines a consolidated file is made of in the model: run markers with and
\* without a number, a file marker, metric lines (one with the describer's
\* trailing comment), a job_name line, and a line without '='.
LineSamples ==
    { "~~~~~~~ RUN #1 ~~~~~~~",
      "~~~~~~~ RUN #2 ~~~~~~~",
      "~~~~~~~ RUN # ~~~~~~~",
      "-- a.txt --",
      "k = 1",
      "k = 2\t# d",
      "job_name = x",
      "noise" }

SplitInit ==
    /\ lines = <<>>
    /\ eof = FALSE
    /\ run_num = None
    /\ current_file = None
    /\ current_metrics = EmptyDict
    /\ job_name = None
    /\ records = <<>>
    /\ file_at = 0
    /\ marks = <<>>

\* one iteration of `for raw in fh` on a line starting with the run-marker token
ReadRunMarker(line) ==
    /\ IsRunMarker(line)
    /\ records' = RecordsAfterFlush
    /\ marks' = MarksAfterFlush(Len(lines) + 1)
    /\ current_metrics' = EmptyDict
    /\ job_name' = None
    /\ current_file' = None
    /\ file_at' = 0
    /\ run_num' = IF RunSearch(line) # None THEN RunSearch(line) ELSE run_num

\* one iteration on a '-- <file> --' line
ReadFileMarker(line) ==
    /\ ~IsRunMarker(line)
    /\ IsFileMarker(line)
    /\ records' = RecordsAfterFlush
    /\ marks' = MarksAfterFlush(Len(lines) + 1)
    /\ current_metrics' = EmptyDict
    /\ job_name' = None
    /\ current_file' = Some(Strip(SubSeq(line, 4, Len(line) - 3)))
    /\ file_at' = Len(lines) + 1
    /\ UNCHANGED run_num

\* one iteration on any other line
ReadMetricLine(line) ==
    /\ ~IsRunMarker(line)
    /\ ~IsFileMarker(line)
    /\ LET kv == parse_key_val(line) IN
         IF kv # None
         THEN /\ current_metrics' = SetItem(current_metrics, kv[1][1], kv[1][2])
              /\ job_name' = IF kv[1][1] = "job_name" THEN Some(kv[1][2]) ELSE job_name
         ELSE UNCHANGED <<current_metrics, job_name>>
    /\ UNCHANGED <<records, marks, current_file, file_at, run_num>>

ReadLine ==
    /\ ~eof
    /\ Len(lines) < MaxLines
    /\ \E line \in LineSamples :
         /\ lines' = Append(lines, line)
         /\ \/ ReadRunMarker(line)
            \/ ReadFileMarker(line)
            \/ ReadMetricLine(line)
    /\ UNCHANGED <<eof, sumVars, bwVars, keyVars, diskVars, fileVars>>

\* the file is exhausted: the flush() after the loop, then return records
EndOfInput ==
    /\ ~eof
    /\ eof' = TRUE
    /\ records' = RecordsAfterFlush
    /\ marks' = MarksAfterFlush(Len(lines) + 1)
    /\ current_metrics' = EmptyDict
    /\ job_name' = None
    /\ current_file' = None
    /\ file_at' = 0
    /\ UNCHANGED <<lines, run_num, sumVars, bwVars, keyVars, diskVars, fileVars>>

(***************************************************************************)
(* Python float values.  A finite float is the exact fraction n/d in       *)
(* lowest terms (binary rounding is not modelled); nan is kept apart, as   *)
(* every comparison with it is False.                                      *)
(***************************************************************************)
RECURSIVE GCD(_, _)
GCD(a, b) == IF b = 0 THEN a ELSE GCD(b, a % b)

Abs(a) == IF a < 0 THEN -a ELSE a

Fin(n, d) ==
    LET g == GCD(Abs(n), d) IN [k |-> "fin", n |-> n \div g, d |-> d \div g]

NaN == [k |-> "nan", n |-> 0, d |-> 1]

\* a * b
FMul(a, b) ==
    IF a.k = "nan" \/ b.k = "nan" THEN NaN
    ELSE LET g1 == GCD(Abs(a.n), b.d)
             g2 == GCD(Abs(b.n), a.d)
         IN  Fin((a.n \div g1) * (b.n \div g2), (a.d \div g2) * (b.d \div g1))

\* a / b for b # 0
FDiv(a, b) ==
    IF a.k = "nan" \/ b.k = "nan" THEN NaN
    ELSE FMul(a, IF b.n < 0 THEN Fin(-b.d, -b.n) ELSE Fin(b.d, b.n))

\* a <= 0
FLeZero(a) == a.k = "fin" /\ a.n <= 0

UpperLetters == "ABCDEFGHIJKLMNOPQRSTUVWXYZ"
LowerLetters == "abcdefghijklmnopqrstuvwxyz"

LowerCh(c) ==
    LET i == Find(UpperLetters, c, 1) IN IF i = 0 THEN c ELSE Ch(LowerLetters, i)

RECURSIVE LowerFrom(_, _)
LowerFrom(s, i) ==
    IF i > Len(s) THEN ""
    ELSE IF i = Len(s) THEN LowerCh(Ch(s, i))
    ELSE Let((i + Len(s)) \div 2, LAMBDA m :
             LowerFrom(SubSeq(s, 1, m), i) \o LowerFrom(s, m + 1))

\* str.lower()
Lower(s) == LowerFrom(s, 1)

RECURSIVE Pow10(_)
Pow10(e) == IF e = 0 THEN 1 ELSE 10 * Pow10(e - 1)

\* s.count(c)
CountCh(s, c) == Cardinality({i \in 1..Len(s) : Ch(s, i) = c})

\* An outcome of a call: a returned value (None or <<v>>), or an exception.
Ret(v) == [raised |-> FALSE, value |-> v]
Raise == [raised |-> TRUE, value |-> None]

\* float() of a string without surrounding whitespace or sign
FloatOfBody(neg, body) ==
    Let(Find(body, ".", 1), LAMBDA dot :
    Let(IF dot = 0 THEN body ELSE SubSeq(body, 1, dot - 1), LAMBDA ip :
    Let(IF dot = 0 THEN "" ELSE SubSeq(body, dot + 1, Len(body)), LAMBDA fp :
        IF Lower(body) = "nan" THEN Ret(Some(NaN))
        ELSE IF /\ Len(ip \o fp) > 0
                /\ RunEnd(ip, 1, Digits) = Len(ip)
                /\ RunEnd(fp, 1, Digits) = Len(fp)
             THEN Ret(Some(Fin((IF neg THEN -1 ELSE 1) * ToInt(ip \o fp), Pow10(Len(fp)))))
             ELSE Raise)))

\* float(s): surrounding whitespace and one sign are accepted, then 'nan' in any
\* case, or decimal digits with at most one '.' and at least one digit; anything
\* else raises ValueError.  (Exponents, 'inf' and digit-group underscores are not
\* among the characters of the model's inputs.)
PyFloat(s) ==
    Let(Strip(s), LAMBDA t :
        FloatOfBody(Ch(t, 1) = "-",
                    IF Ch(t, 1) \in {"-", "+"} THEN SubSeq(t, 2, Len(t)) ELSE t))

\* parse_numeric(val): float(val), None on ValueError
parse_numeric(val) == Let(PyFloat(val), LAMBDA f : IF f.raised THEN None ELSE f.value)

(***************************************************************************)
(* Unit Normalizer: bw_to_gbps and iops_to_k.                               *)
(***************************************************************************)
GB_DEC == 1000000000

NumChars == Digits \cup {"."}

Spaces == {" ", "\t"}

\* size_pat = ([0-9.]+)\s*([KMGTP]?i?B)/s with re.I, tried at position i:
\* None, or <<group 1, group 2>>.  Every quantifier is greedy and none can give
\* a character back to what follows it, so the greedy match is the only one.
SizeMatchAt(val, i) ==
    Let(RunEnd(val, i, NumChars), LAMBDA j :
    Let(RunEnd(val, j + 1, Spaces) + 1, LAMBDA u :
    Let(IF LowerCh(Ch(val, u)) \in {"k", "m", "g", "t", "p"} THEN u + 1 ELSE u, LAMBDA p1 :
    Let(IF LowerCh(Ch(val, p1)) = "i" THEN p1 + 1 ELSE p1, LAMBDA p2 :
        IF /\ j >= i
           /\ LowerCh(Ch(val, p2)) = "b"
           /\ Ch(val, p2 + 1) = "/"
           /\ LowerCh(Ch(val, p2 + 2)) = "s"
        THEN Some(<<SubSeq(val, i, j), SubSeq(val, u, p2)>>)
        ELSE None))))

\* size_pat.search(val): the match at the leftmost position that has one
RECURSIVE SizeSearchFrom(_, _)
SizeSearchFrom(val, i) ==
    IF i > Len(val) THEN None
    ELSE Let(SizeMatchAt(val, i), LAMBDA m :
             IF m # None THEN m ELSE SizeSearchFrom(val, i + 1))

\* the if/elif chain of bw_to_gbps: the factor as <<base, exponent>>
UnitFactor(unit) ==
    IF StartsWith(unit, "kib") THEN <<1024, 1>>
    ELSE IF StartsWith(unit, "kb") THEN <<1000, 1>>
    ELSE IF StartsWith(unit, "mib") THEN <<1024, 2>>
    ELSE IF StartsWith(unit, "mb") THEN <<1000, 2>>
    ELSE IF StartsWith(unit, "gib") THEN <<1024, 3>>
    ELSE IF StartsWith(unit, "gb") THEN <<1000, 3>>
    ELSE IF StartsWith(unit, "tib") THEN <<1024, 4>>
    ELSE IF StartsWith(unit, "tb") THEN <<1000, 4>>
    ELSE <<1, 0>>

\* A bandwidth in GB/s: num * base^exp / div.  The product is kept in factors
\* because 1024^4 is beyond 32-bit integers.
Gbps(num, factor) == [num |-> num, base |-> factor[1], exp |-> factor[2], div |-> GB_DEC]

\* bw_to_gbps(val)
bw_to_gbps(val) ==
    Let(SizeSearchFrom(val, 1), LAMBDA m :
        IF m = None THEN Ret(None)
        ELSE Let(PyFloat(m[1][1]), LAMBDA num :
                 IF num.raised THEN Raise
                 ELSE Ret(Some(Gbps(num.value[1], UnitFactor(Lower(m[1][2])))))))

\* iops_to_k(val): iops_pat = ([0-9.]+)\s*([kKmM]?) matched at the start of val.strip()
iops_to_k(val) ==
    Let(Strip(val), LAMBDA t :
    Let(RunEnd(t, 1, NumChars), LAMBDA j :
    Let(LowerCh(Ch(t, RunEnd(t, j + 1, Spaces) + 1)), LAMBDA c :
    Let(IF c \in {"k", "m"} THEN c ELSE "", LAMBDA suffix :
        IF j < 1 THEN Ret(None)
        ELSE Let(PyFloat(SubSeq(t, 1, j)), LAMBDA num :
                 IF num.raised THEN Raise
                 ELSE Ret(Some(FDiv(
                        IF suffix = "k" THEN FMul(num.value[1], Fin(1000, 1))
                        ELSE IF suffix = "m" THEN FMul(num.value[1], Fin(1000000, 1))
                        ELSE num.value[1],
                        Fin(1000, 1)))))))))

(***************************************************************************)
(* Derivation Engine: derive_latency_ms, first_available, summarize_record. *)
(***************************************************************************)
\* derive_latency_ms(iops_k, iodepth)
derive_latency_ms(iops_k, iodepth) ==
    IF iops_k = None \/ iodepth = None THEN None
    ELSE Let(FMul(iops_k[1], Fin(1000, 1)), LAMBDA iops :
             IF FLeZero(iops) THEN None
             ELSE Some(FMul(FDiv(iodepth[1], iops), Fin(1000, 1))))

\* first_available(metrics, keys): the value of the first key that is in metrics
RECURSIVE first_available(_, _)
first_available(metrics, keys) ==
    IF keys = <<>> THEN None
    ELSE IF Head(keys) \in DOMAIN metrics THEN Some(metrics[Head(keys)])
    ELSE first_available(metrics, Tail(keys))

\* truth value of an Optional[str]: neither None nor ''
Truthy(o) == o # None /\ o[1] # ""

BwKeys == <<"run_read_bw", "run_write_bw", "read_bw", "write_bw">>

IopsKeys == <<"read_iops", "write_iops">>

\* try: float(val) * scale  except ValueError: None
FloatOrNone(val, scale) ==
    Let(PyFloat(val), LAMBDA f : IF f.raised THEN None ELSE Some(FMul(f.value[1], scale)))

\* bw_gbps after the bw_avg fallback (bw_avg is taken as KiB/s)
BwWithFallback(m, bw) ==
    IF bw = None /\ "bw_avg" \in DOMAIN m
    THEN Let(PyFloat(m["bw_avg"]), LAMBDA f :
             IF f.raised THEN None ELSE Some(Gbps(f.value[1], <<1024, 1>>)))
    ELSE bw

\* iops_k after the iops_avg fallback
IopsWithFallback(m, iops) ==
    IF iops = None /\ "iops_avg" \in DOMAIN m
    THEN FloatOrNone(m["iops_avg"], Fin(1, 1000))
    ELSE iops

\* summarize_record(rec).  The numeric fields hold the float each f-string
\* formats (a format of a float is never the empty string, so a field is None
\* exactly when its float is).
summarize_record(r) ==
    Let(r.metrics, LAMBDA m :
    Let(first_available(m, <<"iodepth">>), LAMBDA iodepth_val :
    Let(IF Truthy(iodepth_val) THEN parse_numeric(iodepth_val[1]) ELSE None, LAMBDA iodepth :
    Let(first_available(m, BwKeys), LAMBDA bw_raw :
    Let(IF Truthy(bw_raw) THEN bw_to_gbps(bw_raw[1]) ELSE Ret(None), LAMBDA bw_call :
    IF bw_call.raised THEN Raise ELSE
    Let(BwWithFallback(m, bw_call.value), LAMBDA bw_gbps :
    Let(first_available(m, IopsKeys), LAMBDA iops_raw :
    Let(IF Truthy(iops_raw) THEN iops_to_k(iops_raw[1]) ELSE Ret(None), LAMBDA iops_call :
    IF iops_call.raised THEN Raise ELSE
    Let(IopsWithFallback(m, iops_call.value), LAMBDA iops_k :
    Let(IF "clat_avg" \in DOMAIN m THEN Some(m["clat_avg"]) ELSE None, LAMBDA clat_avg :
        Ret(Some([ run                |-> r.run,
                   file               |-> r.file,
                   job_name           |-> r.job_name,
                   iodepth            |-> iodepth,
                   throughput_GBps    |-> bw_gbps,
                   iops_k             |-> iops_k,
                   derived_latency_ms |-> derive_latency_ms(iops_k, iodepth),
                   clat_avg_ms        |-> IF Truthy(clat_avg)
                                          THEN FloatOrNone(clat_avg[1], Fin(1, 1000))
                                          ELSE None,
                   bw_source          |-> bw_raw,
                   iops_source        |-> iops_raw ]))))))))))))

\* The field values records are made of in the model, per key: well-formed
\* values as fio prints them, values of the wrong shape, and the empty string.
ValueSamples(key) ==
    CASE key = "iodepth"      -> {"32", "x", ""}
      [] key = "run_read_bw"  -> {"5486MiB/s (5752MB/s)", "garbage", "1.2.3MiB/s", ""}
      [] key = "run_write_bw" -> {"103MB/s", "garbage"}
      [] key = "read_bw"      -> {"165MiB/s", "garbage"}
      [] key = "write_bw"     -> {"2GB/s"}
      [] key = "bw_avg"       -> {"1000", "x"}
      [] key = "read_iops"    -> {"84.4k", "0", ".", "abc"}
      [] key = "write_iops"   -> {"50221.53", "abc"}
      [] key = "iops_avg"     -> {"7000", "-5", "nan", "x"}
      [] key = "clat_avg"     -> {"250.5", "x"}

SumKeys ==
    {"iodepth", "run_read_bw", "run_write_bw", "read_bw", "write_bw", "bw_avg",
     "read_iops", "write_iops", "iops_avg", "clat_avg"}

AllSamples == UNION {ValueSamples(k) : k \in SumKeys}

\* the metrics mappings on the key set D, each key with one of its sample values
MetricsOn(D) == {m \in [D -> AllSamples] : \A k \in D : m[k] \in ValueSamples(k)}

\* the records parse_consolidated can hand over: run and file known, between
\* one and MaxKeys of the keys summarize_record reads
RecordInputs ==
    UNION { {Record(Some(1), Some("a.txt"), None, m) : m \in MetricsOn(D)} :
            D \in {E \in SUBSET SumKeys : 1 <= Cardinality(E) /\ Cardinality(E) <= MaxKeys} }

\* the decimal digits of a natural number
RECURSIVE IntStr(_)
IntStr(n) ==
    IF n < 10 THEN SubSeq("0123456789", n + 1, n + 1)
    ELSE IntStr(n \div 10) \o SubSeq("0123456789", (n % 10) + 1, (n % 10) + 1)

\* s padded on the left with zeros to k characters
RECURSIVE ZeroPad(_, _)
ZeroPad(s, k) == IF Len(s) >= k THEN s ELSE ZeroPad("0" \o s, k)

RECURSIVE IsPow2(_)
IsPow2(d) == d = 1 \/ (d % 2 = 0 /\ IsPow2(d \div 2))

\* <<floor(a * 10^k / d), the remainder>> by long division, from <<a \div d, a % d>>
RECURSIVE ScaledDiv(_, _, _)
ScaledDiv(qr, d, k) ==
    IF k = 0 THEN qr
    ELSE ScaledDiv(<<qr[1] * 10 + (qr[2] * 10) \div d, (qr[2] * 10) % d>>, d, k - 1)

\* the digits of the scaled integer sc as a number with k decimals
Decimals(neg, sc, k) ==
    (IF neg THEN "-" ELSE "")
      \o IntStr(sc \div Pow10(k))
      \o (IF k = 0 THEN "" ELSE "." \o ZeroPad(IntStr(sc % Pow10(k)), k))

\* x * base^e / 1000^t
RECURSIVE ScaleBy(_, _, _, _)
ScaleBy(x, base, e, t) ==
    IF e = 0 /\ t = 0 THEN x
    ELSE IF e > 0 /\ t > 0 THEN ScaleBy(FMul(x, Fin(base, 1000)), base, e - 1, t - 1)
    ELSE IF e > 0 THEN ScaleBy(FMul(x, Fin(base, 1)), base, e - 1, 0)
    ELSE ScaleBy(FMul(x, Fin(1, 1000)), base, 0, t - 1)

\* the value of a float of the model as a fraction; GB_DEC is 1000^3
ValueOf(x) ==
    IF "base" \in DOMAIN x THEN ScaleBy(x.num, x.base, x.exp, 3) ELSE x

\* f"{x:.kf}": the strings the format can be.  The digit after the last one
\* kept decides the rounding; a float that is exactly half-way (its
\* denominator is a power of two) rounds to the even digit, and where the
\* fraction is half-way but no float is, the float lies on either side.
FormatFixed(x, k) ==
    Let(ValueOf(x), LAMBDA v :
        IF v.k = "nan" THEN {"nan"}
        ELSE Let(ScaledDiv(<<Abs(v.n) \div v.d, Abs(v.n) % v.d>>, v.d, k), LAMBDA qr :
                 IF 2 * qr[2] < v.d THEN {Decimals(v.n < 0, qr[1], k)}
                 ELSE IF 2 * qr[2] > v.d THEN {Decimals(v.n < 0, qr[1] + 1, k)}
                 ELSE IF IsPow2(v.d)
                      THEN {Decimals(v.n < 0, qr[1] + (qr[1] % 2), k)}
                 ELSE {Decimals(v.n < 0, qr[1], k), Decimals(v.n < 0, qr[1] + 1, k)}))

\* f"{x:.kf}" if x is not None else None; for each field the set of outcomes
FormatField(o, k) ==
    IF o = None THEN {None} ELSE {Some(t) : t \in FormatFixed(o[1], k)}

\* o or 'n/a'
OrNA(o) == IF Truthy(o) THEN o[1] ELSE "n/a"

\* the dicts summarize_record can return for the floats s
SummaryDicts(s) ==
    { [ run |-> s.run, file |-> s.file, job_name |-> s.job_name,
        iodepth |-> i, throughput_GBps |-> t, iops_k |-> k,
        derived_latency_ms |-> l, clat_avg_ms |-> c,
        bw_source |-> s.bw_source, iops_source |-> s.iops_source ] :
      i \in FormatField(s.iodepth, 0), t \in FormatField(s.throughput_GBps, 4),
      k \in FormatField(s.iops_k, 3), l \in FormatField(s.derived_latency_ms, 3),
      c \in FormatField(s.clat_avg_ms, 3) }

\* the line of a record in the report
ReportLine(r, s) ==
    (IF Truthy(r.job_name) THEN r.job_name[1] ELSE r.file[1])
      \o ": throughput_GBps=" \o OrNA(s.throughput_GBps)
      \o ", iops_k=" \o OrNA(s.iops_k)
      \o ", derived_latency_ms=" \o OrNA(s.derived_latency_ms)
      \o ", iodepth=" \o OrNA(s.iodepth)
      \o ", clat_avg_ms=" \o OrNA(s.clat_avg_ms)

\* src_bits
SrcBits(s) ==
    (IF Truthy(s.bw_source) THEN <<"bw_src=" \o s.bw_source[1]>> ELSE <<>>)
      \o (IF Truthy(s.iops_source) THEN <<"iops_src=" \o s.iops_source[1]>> ELSE <<>>)

\* "; ".join(bits)
RECURSIVE JoinSemi(_)
JoinSemi(bits) ==
    IF bits = <<>> THEN ""
    ELSE IF Len(bits) = 1 THEN bits[1]
    ELSE bits[1] \o "; " \o JoinSemi(Tail(bits))

\* the lines one pass of summarize_file's loop body appends for the dict s
BodyLines(cur, r, s) ==
    (IF cur # Some(s.run[1]) THEN <<"===== RUN #" \o IntStr(s.run[1]) \o " =====">> ELSE <<>>)
      \o <<ReportLine(r, s)>>
      \o (IF SrcBits(s) # <<>> THEN <<"  (" \o JoinSemi(SrcBits(s)) \o ")">> ELSE <<>>)

\* summarize_file: `for rec in records` takes the next record
NextRecord ==
    /\ ~aborted
    /\ rec = None
    /\ rec_no < MaxRecords
    /\ \E r \in RecordInputs : rec' = Some(r)
    /\ rendered' = None
    /\ UNCHANGED <<file_no, rec_no, summary, aborted, current_run,
                   splitVars, bwVars, keyVars, diskVars, fileVars>>

\* s = summarize_record(rec); an exception is caught neither by summarize_file
\* nor by main, so it ends the process
SummarizeRecord ==
    /\ ~aborted
    /\ rec # None
    /\ summary = None
    /\ \E s \in {summarize_record(rec[1])} :
         /\ summary' = Some(s)
         /\ aborted' = s.raised
    /\ UNCHANGED <<file_no, rec_no, rec, current_run, rendered,
                   splitVars, bwVars, keyVars, diskVars, fileVars>>

\* the rest of the loop body: the RUN header when the run changes, the
\* record's line, and the provenance line when a source is known
RenderRecord ==
    /\ ~aborted
    /\ summary # None
    /\ \E s \in SummaryDicts(summary[1].value[1]) :
         /\ rendered' = Some(BodyLines(current_run, rec[1], s))
         /\ current_run' = Some(s.run[1])
    /\ rec_no' = rec_no + 1
    /\ rec' = None
    /\ summary' = None
    /\ UNCHANGED <<file_no, aborted, splitVars, bwVars, keyVars, diskVars, fileVars>>

\* main: summarize_file returns and the loop goes on to the next input, where
\* current_run starts as None
NextInput ==
    /\ ~aborted
    /\ rec = None
    /\ file_no < MaxFiles
    /\ file_no' = file_no + 1
    /\ rec_no' = 0
    /\ current_run' = None
    /\ rendered' = None
    /\ UNCHANGED <<rec, summary, aborted, splitVars, bwVars, keyVars, diskVars, fileVars>>

\* The strings bw_to_gbps is applied to in the model: text, a number, optional
\* space, a unit, a rate suffix, and an optional second reading in parentheses.
BwLeads == {"", "bw="}
BwNums == {"165", "1.5", "1.2.3"}
BwGaps == {"", " "}
BwUnits == {"B", "iB", "KB", "KiB", "kib", "MB", "mb", "MiB", "GB", "GiB", "TB", "TiB",
            "PB", "PiB", "XB"}
BwRates == {"/s", "/S", ""}
BwTails == {"", " (5752MB/s)"}

BwInit ==
    /\ bw_res = None
    /\ \E lead \in BwLeads, num \in BwNums, gap \in BwGaps, unit \in BwUnits,
          rate \in BwRates, tail \in BwTails :
         /\ bw_parts = Some([lead |-> lead, num |-> num, gap |-> gap, unit |-> unit,
                             rate |-> rate, tail |-> tail])
         /\ bw_val = lead \o num \o gap \o unit \o rate \o tail

BwToGbps ==
    /\ bw_res = None
    /\ bw_res' = Some(bw_to_gbps(bw_val))
    /\ UNCHANGED <<bw_parts, bw_val, splitVars, sumVars, keyVars, diskVars, fileVars>>

(***************************************************************************)
(* parse_fio_output.py: normalize_key, describe, emit, parse_disk_stats.    *)
(***************************************************************************)
\* s.replace(old, new) for a one-character old
RECURSIVE ReplaceFrom(_, _, _, _)
ReplaceFrom(s, i, old, new) ==
    IF i > Len(s) THEN ""
    ELSE (IF Ch(s, i) = old THEN new ELSE Ch(s, i)) \o ReplaceFrom(s, i + 1, old, new)

Replace(s, old, new) == ReplaceFrom(s, 1, old, new)

\* re.sub(r'[cs]+', new, s): every maximal run of characters of cs becomes new
RECURSIVE SubRunsFrom(_, _, _, _)
SubRunsFrom(s, i, cs, new) ==
    IF i > Len(s) THEN ""
    ELSE IF Ch(s, i) \in cs THEN new \o SubRunsFrom(s, RunEnd(s, i, cs) + 1, cs, new)
    ELSE Ch(s, i) \o SubRunsFrom(s, i + 1, cs, new)

\* re.sub(r'[^cs]', '', s): the characters outside cs are dropped
RECURSIVE KeepFrom(_, _, _)
KeepFrom(s, i, cs) ==
    IF i > Len(s) THEN ""
    ELSE (IF Ch(s, i) \in cs THEN Ch(s, i) ELSE "") \o KeepFrom(s, i + 1, cs)

CharsOf(s) == {Ch(s, i) : i \in 1..Len(s)}

\* the class [A-Za-z0-9_\.\-]
SafeKeyChars == CharsOf(UpperLetters) \cup CharsOf(LowerLetters) \cup Digits \cup {"_", ".", "-"}

\* the class [A-Z0-9_\.\-]: SafeKeyChars with the range a-z left out
UpperSafeKeyChars == CharsOf(UpperLetters) \cup Digits \cup {"_", ".", "-"}

\* normalize_key with the lower-case range missing from the class of line 54
normalize_key_upper_class(k) ==
    Let(Strip(k), LAMBDA k1 :
    Let(Replace(Replace(k1, "(", ""), ")", ""), LAMBDA k2 :
    Let(Replace(k2, "%", "pct"), LAMBDA k3 :
    Let(Replace(k3, "/", "_"), LAMBDA k4 :
    Let(SubRunsFrom(k4, 1, Spaces \cup {":"}, "_"), LAMBDA k5 :
    Let(KeepFrom(k5, 1, UpperSafeKeyChars), LAMBDA k6 :
        Lower(k6)))))))

\* normalize_key(k)
normalize_key(k) ==
    Let(Strip(k), LAMBDA k1 :
    Let(Replace(Replace(k1, "(", ""), ")", ""), LAMBDA k2 :
    Let(Replace(k2, "%", "pct"), LAMBDA k3 :
    Let(Replace(k3, "/", "_"), LAMBDA k4 :
    Let(SubRunsFrom(k4, 1, Spaces \cup {":"}, "_"), LAMBDA k5 :
    Let(KeepFrom(k5, 1, SafeKeyChars), LAMBDA k6 :
        Lower(k6)))))))

\* describe: the exact key descriptions, as <<key, description>>
desc_map ==
    <<
      <<"job_name", "fio job name">>,
      <<"rw", "workload type (read/write/randread/randwrite/rw)">>,
      <<"ioengine", "fio ioengine used">>,
      <<"iodepth", "queue depth per job">>,
      <<"bs_r", "read block size range">>,
      <<"bs_w", "write block size range">>,
      <<"bs_t", "total block size range">>,
      <<"groupid", "fio group id">>,
      <<"jobs", "number of jobs (threads/processes)">>,
      <<"err", "fio job error code">>,
      <<"pid", "fio job pid">>,
      <<"timestamp", "fio-reported wall-clock timestamp">>,
      <<"fio_version", "fio version">>,
      <<"layout_files", "number of files laid out">>,
      <<"layout_size", "file size used for layout">>,
      <<"read_iops", "read IOPS (fio)">>,
      <<"read_bw", "read bandwidth (fio)">>,
      <<"read_io", "total read bytes transferred">>,
      <<"read_run", "read run duration (msec range)">>,
      <<"write_iops", "write IOPS (fio)">>,
      <<"write_bw", "write bandwidth (fio)">>,
      <<"write_io", "total write bytes transferred">>,
      <<"write_run", "write run duration (msec range)">>,
      <<"slat_min", "submission latency min (ns)">>,
      <<"slat_max", "submission latency max (ns)">>,
      <<"slat_avg", "submission latency avg (ns)">>,
      <<"slat_stdev", "submission latency stdev (ns)">>,
      <<"clat_min", "completion latency min (usec)">>,
      <<"clat_max", "completion latency max (usec)">>,
      <<"clat_avg", "completion latency avg (usec)">>,
      <<"clat_stdev", "completion latency stdev (usec)">>,
      <<"lat_usec_min", "total latency min (usec)">>,
      <<"lat_usec_max", "total latency max (usec)">>,
      <<"lat_usec_avg", "total latency avg (usec)">>,
      <<"lat_usec_stdev", "total latency stdev (usec)">>,
      <<"bw_min", "bandwidth sample min">>,
      <<"bw_max", "bandwidth sample max">>,
      <<"bw_per", "bandwidth sample coverage percent">>,
      <<"bw_avg", "bandwidth sample avg">>,
      <<"bw_stdev", "bandwidth sample stdev">>,
      <<"bw_samples", "bandwidth samples count">>,
      <<"iops_min", "iops sample min">>,
      <<"iops_max", "iops sample max">>,
      <<"iops_avg", "iops sample avg">>,
      <<"iops_stdev", "iops sample stdev">>,
      <<"iops_samples", "iops samples count">>,
      <<"cpu_usr", "cpu user percent">>,
      <<"cpu_sys", "cpu system percent">>,
      <<"cpu_ctx", "context switches">>,
      <<"cpu_majf", "major faults">>,
      <<"cpu_minf", "minor faults">>,
      <<"iodepth_dist_1", "percent time at queue depth 1">>,
      <<"iodepth_dist_2", "percent time at queue depth 2">>,
      <<"iodepth_dist_4", "percent time at queue depth 4">>,
      <<"iodepth_dist_8", "percent time at queue depth 8">>,
      <<"iodepth_dist_16", "percent time at queue depth 16">>,
      <<"iodepth_dist_32", "percent time at queue depth 32">>,
      <<"iodepth_dist_>=64", "percent time at queue depth >=64">>,
      <<"submit_0", "submit queue depth bucket 0 percent">>,
      <<"submit_4", "submit queue depth bucket 4 percent">>,
      <<"submit_8", "submit queue depth bucket 8 percent">>,
      <<"submit_16", "submit queue depth bucket 16 percent">>,
      <<"submit_32", "submit queue depth bucket 32 percent">>,
      <<"submit_64", "submit queue depth bucket 64 percent">>,
      <<"submit_>=64", "submit queue depth bucket >=64 percent">>,
      <<"complete_0", "complete queue depth bucket 0 percent">>,
      <<"complete_4", "complete queue depth bucket 4 percent">>,
      <<"complete_8", "complete queue depth bucket 8 percent">>,
      <<"complete_16", "complete queue depth bucket 16 percent">>,
      <<"complete_32", "complete queue depth bucket 32 percent">>,
      <<"complete_64", "complete queue depth bucket 64 percent">>,
      <<"complete_>=64", "complete queue depth bucket >=64 percent">>,
      <<"issued_total", "issued rwts totals (r,w,trim,sync)">>,
      <<"issued_short", "short ios (r,w,trim,sync)">>,
      <<"issued_dropped", "dropped ios (r,w,trim,sync)">>,
      <<"latency_cfg_target", "latency target config">>,
      <<"latency_cfg_window", "latency window config">>,
      <<"latency_cfg_percentile", "latency percentile target">>,
      <<"latency_cfg_depth", "latency depth config">>,
      <<"run_read_bw", "run summary read bandwidth">>,
      <<"run_read_io", "run summary read bytes">>,
      <<"run_read_run", "run summary read duration">>,
      <<"run_write_bw", "run summary write bandwidth">>,
      <<"run_write_io", "run summary write bytes">>,
      <<"run_write_run", "run summary write duration">>
    >>

\* describe(key): None, or <<description>>
describe(key) ==
    IF StartsWith(key, "clat_pct_") THEN Some("completion latency percentile (usec)")
    ELSE IF StartsWith(key, "lat_usecpct_") THEN Some("percent of IOs in latency bucket (usec)")
    ELSE IF StartsWith(key, "lat_msecpct_") THEN Some("percent of IOs in latency bucket (msec)")
    ELSE IF StartsWith(key, "disk_") THEN Some("per-disk fio disk stats")
    ELSE IF StartsWith(key, "run_read_") THEN Some("run summary (read)")
    ELSE IF StartsWith(key, "run_write_") THEN Some("run summary (write)")
    ELSE Let({i \in 1..Len(desc_map) : desc_map[i][1] = key}, LAMBDA hit :
             IF hit = {} THEN None ELSE Some(desc_map[CHOOSE i \in hit : TRUE][2]))

\* emit(out_list, k, v): out_list with the line appended
emit(out_list, k, v) ==
    Let(describe(k), LAMBDA desc :
        Append(out_list, IF desc # None THEN k \o " = " \o v \o "\t# " \o desc[1]
                         ELSE k \o " = " \o v))

\* the class [A-Za-z0-9._%/\(\)-] of re_kv's key group
KvKeyChars == SafeKeyChars \cup {"%", "/", "(", ")"}

\* re_kv = (?P<key>[A-Za-z0-9._%/\(\)-]+)=(?P<value>[^,]+) tried at position i:
\* None, or <<key, value, index after the match>>
KvMatchAt(s, i) ==
    Let(RunEnd(s, i, KvKeyChars), LAMBDA q :
    Let(RunEndNot(s, q + 2, {","}), LAMBDA e :
        IF q >= i /\ Ch(s, q + 1) = "=" /\ e >= q + 2
        THEN Some(<<SubSeq(s, i, q), SubSeq(s, q + 2, e), e + 1>>)
        ELSE None))

\* re_kv.finditer(s): the matches from position i on, left to right, not overlapping
RECURSIVE KvFindFrom(_, _)
KvFindFrom(s, i) ==
    IF i > Len(s) THEN <<>>
    ELSE Let(KvMatchAt(s, i), LAMBDA m :
             IF m = None THEN KvFindFrom(s, i + 1)
             ELSE <<<<m[1][1], m[1][2]>>>> \o KvFindFrom(s, m[1][3]))

KvFindIter(s) == KvFindFrom(s, 1)

\* the body of parse_disk_stats' loop for one match, the value split at every
\* slash count but only when there is exactly one
DiskEntrySingleSlash(d, key, value, out_list) ==
    Let(normalize_key(key), LAMBDA k :
    Let(Strip(value), LAMBDA v :
        IF CountCh(v, "/") = 1 /\ ~Contains(v, ",")
        THEN Let(SplitOnce(v, "/"), LAMBDA parts :
                 emit(emit(out_list, "disk_" \o d \o "_" \o k \o "_read", Strip(parts[1])),
                      "disk_" \o d \o "_" \o k \o "_write", Strip(parts[2])))
        ELSE emit(out_list, "disk_" \o d \o "_" \o k, v)))

\* the body of parse_disk_stats' loop for one match
DiskEntry(d, key, value, out_list) ==
    Let(normalize_key(key), LAMBDA k :
    Let(Strip(value), LAMBDA v :
        IF Contains(v, "/") /\ ~Contains(v, ",")
        THEN Let(SplitOnce(v, "/"), LAMBDA parts :
                 emit(emit(out_list, "disk_" \o d \o "_" \o k \o "_read", Strip(parts[1])),
                      "disk_" \o d \o "_" \o k \o "_write", Strip(parts[2])))
        ELSE emit(out_list, "disk_" \o d \o "_" \o k, v)))

\* parse_disk_stats(dev, rest, out_list) over the matches ms from index i on
RECURSIVE DiskEntriesFrom(_, _, _, _)
DiskEntriesFrom(d, ms, i, out_list) ==
    IF i > Len(ms) THEN out_list
    ELSE Let(DiskEntry(d, ms[i][1], ms[i][2], out_list), LAMBDA o :
             DiskEntriesFrom(d, ms, i + 1, o))

parse_disk_stats(d, r, out_list) ==
    Let(KvFindIter(r), LAMBDA ms : DiskEntriesFrom(d, ms, 1, out_list))

\* the strings of length n over the characters cs
RECURSIVE StringsOfLen(_, _)
StringsOfLen(cs, n) ==
    IF n = 0 THEN {""} ELSE {s \o c : s \in StringsOfLen(cs, n - 1), c \in cs}

\* the characters keys are made of in the model: one of each kind normalize_key
\* treats differently
KeyAlphabet == {" ", ":", "(", ")", "%", "/", "A", "!"}

KeyInit ==
    /\ \E n \in 0..MaxKeyLen : key_in \in StringsOfLen(KeyAlphabet, n)
    /\ key_out = None
    /\ key_again = None

\* k = normalize_key(key)
NormalizeKey ==
    /\ key_out = None
    /\ key_out' = Some(normalize_key(key_in))
    /\ UNCHANGED <<key_in, key_again, splitVars, sumVars, bwVars, diskVars, fileVars>>

\* the normalized key is normalized again
NormalizeAgain ==
    /\ key_out # None
    /\ key_again = None
    /\ key_again' = Some(normalize_key(key_out[1]))
    /\ UNCHANGED <<key_in, key_out, splitVars, sumVars, bwVars, diskVars, fileVars>>

\* the characters of the short <rest> strings of the model
DiskAlphabet == {"1", "=", "/", ",", " "}

\* key=value pairs as fio prints them after `sda:`, and variants with blanks
\* around the slash and with two slashes
DiskPairSamples == {"ios=9/5", "ticks= 10 / 20", "merge=1/2/3", "in_queue=30", "util=1.50%"}

\* n pairs separated by ", "
RECURSIVE DiskPairLists(_)
DiskPairLists(n) ==
    IF n = 1 THEN DiskPairSamples
    ELSE {r \o ", " \o p : r \in DiskPairLists(n - 1), p \in DiskPairSamples}

\* parse_file hands over the groups of re_disk_dev matched on the stripped
\* line: <rest> is not empty and neither starts nor ends with whitespace.  It
\* is any string of at most MaxRestLen characters of DiskAlphabet, or a list of
\* at most MaxPairs of the sample pairs.
DiskInit ==
    /\ dev = "sda"
    /\ \/ \E n \in 1..MaxRestLen :
             rest \in {r \in StringsOfLen(DiskAlphabet, n) :
                        ~IsSpace(Ch(r, 1)) /\ ~IsSpace(Ch(r, n))}
       \/ \E n \in 1..MaxPairs : rest \in DiskPairLists(n)
    /\ disk_out = None

\* parse_disk_stats(dev, rest, out) on an empty out
ParseDiskStats ==
    /\ disk_out = None
    /\ disk_out' = Some(parse_disk_stats(dev, rest, <<>>))
    /\ UNCHANGED <<dev, rest, splitVars, sumVars, bwVars, keyVars, fileVars>>

(***************************************************************************)
(* parse_fio_output.py: the patterns of parse_file and the line rules.      *)
(***************************************************************************)
\* sub occurs in s at index i
StrAt(s, sub, i) ==
    i >= 1 /\ i + Len(sub) - 1 <= Len(s) /\ SubSeq(s, i, i + Len(sub) - 1) = sub

\* the largest and the smallest element of a set of indices, 0 for the empty set
MaxOf(S) == IF S = {} THEN 0 ELSE CHOOSE k \in S : \A j \in S : j <= k

MinOf(S) == IF S = {} THEN 0 ELSE CHOOSE k \in S : \A j \in S : k <= j

\* \s*(group)DELIM where the group is one or more characters other than those
\* of stop: <<first, last>> index of the group, <<0, 0>> with no match.  \s*
\* is greedy and gives one blank back when the group would be empty.
BlankThenGroup(s, i, stop) ==
    Let(SkipSpace(s, i), LAMBDA a :
    Let(IF RunEndNot(s, a, stop) >= a THEN a ELSE IF a > i THEN a - 1 ELSE 0, LAMBDA b :
        IF b = 0 THEN <<0, 0>> ELSE <<b, RunEndNot(s, b, stop)>>))

\* re_fio_version = ^fio-([0-9.]+): None or <<version>>
re_fio_version(s) ==
    Let(RunEnd(s, 5, NumChars), LAMBDA e :
        IF StartsWith(s, "fio-") /\ e >= 5 THEN Some(SubSeq(s, 5, e)) ELSE None)

\* \((\d+) file[s]? / ([^)]+)\) at index i: None or <<files, size>>
LayoutAt(s, i) ==
    Let(RunEnd(s, i + 1, Digits), LAMBDA e :
        IF Ch(s, i) # "(" \/ e < i + 1 \/ ~StrAt(s, " file", e + 1) THEN None
        ELSE Let(IF Ch(s, e + 6) = "s" THEN e + 7 ELSE e + 6, LAMBDA j :
             Let(RunEndNot(s, j + 3, {")"}), LAMBDA z :
                 IF StrAt(s, " / ", j) /\ z >= j + 3 /\ Ch(s, z + 1) = ")"
                 THEN Some(<<SubSeq(s, i + 1, e), SubSeq(s, j + 3, z)>>)
                 ELSE None)))

\* re_layout.search(s) for a line that contains 'Laying out IO file'; the
\* greedy .* takes the last parenthesis the rest of the pattern matches at
re_layout(s) ==
    Let(FindStr(s, "Laying out IO file", 1), LAMBDA p :
    Let({i \in (p + 18)..Len(s) : LayoutAt(s, i) # None}, LAMBDA I :
        IF I = {} THEN None ELSE LayoutAt(s, MaxOf(I))))

\* \s*([^:]+):\s*pid=(\d+):\s*(.+)$ at index i (ls is s in lower case):
\* None or <<err, pid, timestamp>>
ErrTail(s, ls, i) ==
    Let(BlankThenGroup(s, i, {":"}), LAMBDA g :
        IF g[1] = 0 \/ Ch(s, g[2] + 1) # ":" THEN None
        ELSE Let(SkipSpace(s, g[2] + 2), LAMBDA q :
             Let(RunEnd(s, q + 4, Digits), LAMBDA e :
                 IF ~StrAt(ls, "pid=", q) \/ e < q + 4 \/ Ch(s, e + 1) # ":" THEN None
                 ELSE Let(SkipSpace(s, e + 2), LAMBDA t :
                          IF t <= Len(s)
                          THEN Some(<<SubSeq(s, g[1], g[2]), SubSeq(s, q + 4, e),
                                      SubSeq(s, t, Len(s))>>)
                          ELSE IF Len(s) >= e + 2
                          THEN Some(<<SubSeq(s, g[1], g[2]), SubSeq(s, q + 4, e),
                                      SubSeq(s, Len(s), Len(s))>>)
                          ELSE None))))

\* re_group_jobs.search(s), case-insensitive and anchored at the start:
\* None or <<[job, groupid, jobs, err, pid, timestamp]>>
re_group_jobs(s) ==
    Let(Lower(s), LAMBDA ls :
    Let(RunEnd(s, 1, SafeKeyChars), LAMBDA j :
    Let(RunEnd(s, j + 12, Digits), LAMBDA g :
    Let(RunEnd(s, g + 8, Digits), LAMBDA n :
        IF j < 1 \/ ~StrAt(ls, ": (groupid=", j + 1) \/ g < j + 12
             \/ ~StrAt(ls, ", jobs=", g + 1) \/ n < g + 8 \/ ~StrAt(ls, "):", n + 1)
        THEN None
        ELSE Let({k \in (n + 3)..Len(s) :
                     StrAt(ls, "err=", k) /\ ErrTail(s, ls, k + 4) # None}, LAMBDA K :
                 IF K = {} THEN None
                 ELSE Let(ErrTail(s, ls, MaxOf(K) + 4)[1], LAMBDA t :
                          Some([job |-> SubSeq(s, 1, j), groupid |-> SubSeq(s, j + 12, g),
                                jobs |-> SubSeq(s, g + 8, n), err |-> t[1],
                                pid |-> t[2], timestamp |-> t[3]])))))))

\* the class [^,\s]
IsWordCh(c) == c # "" /\ c \notin (Spaces \cup {","})

\* re_job_header.search(s), case-insensitive and anchored at the start:
\* None or <<[job, rw, ioengine, iodepth]>>.  Each greedy .* takes the last
\* place the rest of the pattern still matches after, and each group is as
\* long as it can be while leaving room for that place.
re_job_header(s) ==
    Let(Lower(s), LAMBDA ls :
    Let(RunEnd(s, 1, SafeKeyChars), LAMBDA j :
    Let(MaxOf({k \in 1..Len(s) : StrAt(ls, "iodepth=", k) /\ Ch(s, k + 8) \in Digits}),
        LAMBDA k3 :
    Let(MaxOf({k \in 1..Len(s) : StrAt(ls, "ioengine=", k) /\ IsWordCh(Ch(s, k + 9))
                                   /\ k + 9 < k3}), LAMBDA k2 :
    Let(MaxOf({k \in (j + 2)..Len(s) : StrAt(ls, "rw=", k) /\ IsWordCh(Ch(s, k + 3))
                                         /\ k + 3 < k2}), LAMBDA k1 :
        IF j < 1 \/ Ch(s, j + 1) # ":" \/ k1 = 0 THEN None
        ELSE Let(RunEndNot(s, k1 + 3, Spaces \cup {","}), LAMBDA e1 :
             Let(RunEndNot(s, k2 + 9, Spaces \cup {","}), LAMBDA e2 :
                 Some([job |-> SubSeq(s, 1, j),
                       rw |-> SubSeq(s, k1 + 3, IF e1 < k2 THEN e1 ELSE k2 - 1),
                       ioengine |-> SubSeq(s, k2 + 9, IF e2 < k3 THEN e2 ELSE k3 - 1),
                       iodepth |-> SubSeq(s, k3 + 8, RunEnd(s, k3 + 8, Digits))]))))))))

\* TAG\s*([^,\s]+) searched case-insensitively, tag in lower case: None or <<group>>
\* (re_bs_r, re_bs_w, re_bs_t)
re_bs(s, tag) ==
    Let(Lower(s), LAMBDA ls :
    Let(MinOf({k \in 1..Len(s) :
                 StrAt(ls, tag, k) /\ IsWordCh(Ch(s, SkipSpace(s, k + Len(tag))))}), LAMBDA k :
        IF k = 0 THEN None
        ELSE Let(SkipSpace(s, k + Len(tag)), LAMBDA a :
                 Some(SubSeq(s, a, RunEndNot(s, a, Spaces \cup {","}))))))

\* re_percentile = ([0-9]+(?:\.[0-9]+)?th)=\[\s*([^\]]+)\] tried at index i:
\* None or <<pct, val, index after the match>>
PctMatchAt(s, i) ==
    Let(RunEnd(s, i, Digits), LAMBDA d1 :
    Let(IF Ch(s, d1 + 1) = "." /\ RunEnd(s, d1 + 2, Digits) >= d1 + 2
        THEN RunEnd(s, d1 + 2, Digits) ELSE d1, LAMBDA d2 :
        IF d1 < i \/ ~StrAt(s, "th=[", d2 + 1) THEN None
        ELSE Let(BlankThenGroup(s, d2 + 5, {"]"}), LAMBDA g :
                 IF g[1] = 0 \/ Ch(s, g[2] + 1) # "]" THEN None
                 ELSE Some(<<SubSeq(s, i, d2 + 2), SubSeq(s, g[1], g[2]), g[2] + 2>>))))

\* re_percentile.finditer(s) from index i on
RECURSIVE PctFindFrom(_, _)
PctFindFrom(s, i) ==
    IF i > Len(s) THEN <<>>
    ELSE Let(PctMatchAt(s, i), LAMBDA m :
             IF m = None THEN PctFindFrom(s, i + 1)
             ELSE <<<<m[1][1], m[1][2]>>>> \o PctFindFrom(s, m[1][3]))

\* re.search(key + r'([^ ]+)', s): None or <<group 1>>
SearchWord(s, key) ==
    Let(MinOf({k \in 1..Len(s) :
                 StrAt(s, key, k) /\ Ch(s, k + Len(key)) \notin {"", " "}}), LAMBDA k :
        IF k = 0 THEN None
        ELSE Some(SubSeq(s, k + Len(key), RunEndNot(s, k + Len(key), {" "}))))

\* the class [A-Za-z0-9_-] of re_disk_dev
DevChars == SafeKeyChars \ {"."}

\* re_disk_dev.match(s) = ^([A-Za-z0-9_-]+):\s*(.+): None or <<dev, rest>>
re_disk_dev(s) ==
    Let(RunEnd(s, 1, DevChars), LAMBDA j :
    Let(SkipSpace(s, j + 2), LAMBDA a :
        IF j < 1 \/ Ch(s, j + 1) # ":" \/ Len(s) < j + 2 THEN None
        ELSE IF a <= Len(s) THEN Some(<<SubSeq(s, 1, j), SubSeq(s, a, Len(s))>>)
        ELSE Some(<<SubSeq(s, 1, j), SubSeq(s, Len(s), Len(s))>>)))

\* emit for each <<key, value>> of kvs from index i on
RECURSIVE EmitAll(_, _, _)
EmitAll(out_list, kvs, i) ==
    IF i > Len(kvs) THEN out_list
    ELSE Let(emit(out_list, kvs[i][1], kvs[i][2]), LAMBDA o : EmitAll(o, kvs, i + 1))

\* emit for the present ones of the optional <<key, <<value>>>> pairs
RECURSIVE EmitPresent(_, _, _)
EmitPresent(out_list, kvs, i) ==
    IF i > Len(kvs) THEN out_list
    ELSE IF kvs[i][2] = None THEN EmitPresent(out_list, kvs, i + 1)
    ELSE Let(emit(out_list, kvs[i][1], kvs[i][2][1]), LAMBDA o : EmitPresent(o, kvs, i + 1))

\* parse_kv_list(line, prefix, out_list)
parse_kv_list(line, prefix, out_list) ==
    Let(KvFindIter(line), LAMBDA ms :
        EmitAll(out_list,
                [i \in 1..Len(ms) |-> <<prefix \o normalize_key(ms[i][1]), Strip(ms[i][2])>>], 1))

\* parse_percentile_line(line, prefix, out_list)
parse_percentile_line(line, prefix, out_list) ==
    Let(PctFindFrom(line, 1), LAMBDA ms :
        EmitAll(out_list, [i \in 1..Len(ms) |-> <<prefix \o ms[i][1], Strip(ms[i][2])>>], 1))

\* What one pass of parse_file's loop leaves: the entries, the two flags, and
\* whether an exception ended the pass.
Pass(o, pct, disk) == [raised |-> FALSE, out |-> o, pct_mode |-> pct, disk_section |-> disk]

Raised(o, pct, disk) == [raised |-> TRUE, out |-> o, pct_mode |-> pct, disk_section |-> disk]

\* parse_kv_list(sline.split(':', 1)[1], prefix, out); continue.  The index 1
\* does not exist when the line has no colon: IndexError.
KvAfterColon(sline, prefix, o, pct, disk) ==
    IF ~Contains(sline, ":") THEN Raised(o, pct, disk)
    ELSE Pass(parse_kv_list(SplitOnce(sline, ":")[2], prefix, o), pct, disk)

\* the branch of a line matched by re_job_header
JobHeaderEntries(sline, m, o) ==
    EmitPresent(o, << <<"job_name", Some(m.job)>>,
                      <<"rw", IF m.rw # "" THEN Some(m.rw) ELSE None>>,
                      <<"ioengine", IF m.ioengine # "" THEN Some(m.ioengine) ELSE None>>,
                      <<"iodepth", IF m.iodepth # "" THEN Some(m.iodepth) ELSE None>>,
                      <<"bs_r", re_bs(sline, "bs=(r)")>>,
                      <<"bs_w", re_bs(sline, "(w)")>>,
                      <<"bs_t", re_bs(sline, "(t)")>> >>, 1)

\* the rules of parse_file from the prefix-dispatched ones on (lines 279-353)
LineRulesTail(sline, o, pct, disk) ==
    IF StartsWith(sline, "read:") THEN KvAfterColon(sline, "read_", o, pct, disk)
    ELSE IF StartsWith(sline, "write:") THEN KvAfterColon(sline, "write_", o, pct, disk)
    ELSE IF StartsWith(sline, "slat") THEN KvAfterColon(sline, "slat_", o, pct, disk)
    ELSE IF StartsWith(sline, "clat") /\ ~HasStr(Lower(sline), "percentiles")
         THEN KvAfterColon(sline, "clat_", o, pct, disk)
    ELSE IF StartsWith(sline, "lat (usec)") \/ StartsWith(sline, "lat (usec)   :")
         THEN KvAfterColon(sline, "lat_usec_", o, pct, disk)
    ELSE IF StartsWith(sline, "lat (msec)") THEN KvAfterColon(sline, "lat_msec_", o, pct, disk)
    ELSE IF StartsWith(sline, "bw (") THEN KvAfterColon(sline, "bw_", o, pct, disk)
    ELSE IF StartsWith(sline, "iops") /\ HasStr(sline, "iops")
         THEN KvAfterColon(sline, "iops_", o, pct, disk)
    ELSE IF StartsWith(sline, "lat (usec)")
         THEN KvAfterColon(sline, "lat_usecpct_", o, pct, disk)
    ELSE IF StartsWith(sline, "cpu") THEN KvAfterColon(sline, "cpu_", o, pct, disk)
    ELSE IF StartsWith(sline, "IO depths")
         THEN KvAfterColon(sline, "iodepth_dist_", o, pct, disk)
    ELSE IF StartsWith(sline, "submit") THEN KvAfterColon(sline, "submit_", o, pct, disk)
    ELSE IF StartsWith(sline, "complete") THEN KvAfterColon(sline, "complete_", o, pct, disk)
    ELSE IF HasStr(sline, "issued rwts")
         THEN Pass(EmitPresent(o, << <<"issued_total", SearchWord(sline, "total=")>>,
                                     <<"issued_short", SearchWord(sline, "short=")>>,
                                     <<"issued_dropped", SearchWord(sline, "dropped=")>> >>, 1),
                   pct, disk)
    ELSE IF StartsWith(sline, "latency")
         THEN KvAfterColon(sline, "latency_cfg_", o, pct, disk)
    ELSE IF HasStr(sline, "Disk stats") THEN Pass(o, pct, TRUE)
    ELSE IF disk /\ re_disk_dev(sline) # None
         THEN Let(re_disk_dev(sline)[1], LAMBDA m :
                  Pass(parse_disk_stats(m[1], m[2], o), pct, disk))
    ELSE Pass(parse_kv_list(sline, "", o), pct, disk)

\* a blank line that would leave the two flags as they are
BlankLineKeepsFlags(o, pct, disk) == Pass(o, pct, disk)

\* `if not sline`: the blank line ends the percentile block and the disk
\* section; continue
BlankLine(o, pct, disk) == Pass(o, None, FALSE)

\* one pass of `for raw in fh` of parse_file on the stripped line sline
LineRules(sline, o, pct, disk) ==
    IF sline = "" THEN BlankLine(o, pct, disk)
    ELSE IF re_fio_version(sline) # None
         THEN Pass(emit(o, "fio_version", re_fio_version(sline)[1]), pct, disk)
    ELSE IF HasStr(sline, "Laying out IO file")
         THEN Let(re_layout(sline), LAMBDA m :
                  IF m = None THEN Pass(o, pct, disk)
                  ELSE Pass(emit(emit(o, "layout_files", m[1][1]), "layout_size", m[1][2]),
                            pct, disk))
    ELSE Let(re_group_jobs(sline), LAMBDA gj :
         IF gj # None
         THEN Pass(EmitAll(o, << <<"job_name", gj[1].job>>, <<"groupid", gj[1].groupid>>,
                                 <<"jobs", gj[1].jobs>>, <<"err", gj[1].err>>,
                                 <<"pid", gj[1].pid>>, <<"timestamp", gj[1].timestamp>> >>, 1),
                   pct, disk)
         ELSE Let(re_job_header(sline), LAMBDA jh :
         IF jh # None THEN Pass(JobHeaderEntries(sline, jh[1], o), pct, disk)
         ELSE IF StartsWith(Lower(sline), "clat percentiles")
                   \/ StartsWith(Lower(sline), "clat percentiles (usec):")
              THEN Pass(o, Some("clat"), disk)
         ELSE IF pct = Some("clat") /\ StartsWith(sline, "|")
              THEN Pass(parse_percentile_line(sline, "clat_pct_", o), pct, disk)
         ELSE IF StartsWith(sline, "READ:") THEN Pass(parse_kv_list(sline, "run_read_", o), pct, disk)
         ELSE IF StartsWith(sline, "WRITE:")
              THEN Pass(parse_kv_list(sline, "run_write_", o), pct, disk)
         ELSE LineRulesTail(sline, o, pct, disk)))

\* The lines of the model that set, use and clear the two flags, and one line
\* that does neither.
FioFlagLines ==
    { "",
      "    clat percentiles (usec):",
      "     |  1.00th=[  359], 99.00th=[ 1012]",
      "Disk stats (read/write):",
      "  sda: ios=9/5, merge=1/2/3, util=1.50%",
      "  read: IOPS=84.4k, BW=330MiB/s (346MB/s)" }

\* the leading tokens of the prefix-dispatched rules
PrefixTokens ==
    {"slat", "clat", "lat (usec)", "lat (msec)", "bw (", "iops", "cpu", "IO depths",
     "submit", "complete", "latency"}

\* Lines as fio prints them, one or more for every rule of parse_file, and
\* for each prefix token a line without a colon, one without a key=value pair
\* after the colon, and one with two pairs.
FioLineSamples ==
    FioFlagLines
      \cup {"   ", "fio-3.33",
            "job1: Laying out IO file (1 file / 1024MiB)",
            "job1: Laying out IO file",
            "job1: (groupid=0, jobs=1): err= 0: pid=4242: Thu Jan  1 00:00:00 1970",
            "job1: (g=0): rw=randread, bs=(R) 4096B-4096B, (W) 8K-8K, (T) 4096B-4096B, ioengine=libaio, iodepth=32",
            "CLAT percentiles (usec):",
            "| clat_pct_1.00th=[5]",
            "   READ: bw=5486MiB/s (5752MB/s), io=16.0GiB (17.2GB)",
            "  WRITE: bw=103MiB/s",
            "  write: IOPS=50.2k",
            "  issued rwts: total=4194304,0,0,0 short=0,0,0,0 dropped=0,0,0,0",
            "Run status group 0 (all jobs):",
            "sda: Disk stats",
            "sda:",
            "nvme0n1 ios=1/2",
            "x=1, y = 2"}
      \cup {t \o sfx : t \in PrefixTokens, sfx \in {"", "   : ", "   : min=2, max= 99"}}

FileInit ==
    /\ fio_lines = <<>>
    /\ out = <<>>
    /\ pct_mode = None
    /\ disk_section = FALSE
    /\ fio_raised = FALSE

\* The body of `for raw in fh` for every sample line and every value of the
\* two flags.  The body only ever appends to out (emit), so what it does to
\* a list is what it does to the empty list, after the entries already there.
LineEffect ==
    [raw \in FioLineSamples |->
        [pct \in {None, Some("clat")} |->
            [disk \in BOOLEAN |-> LineRules(Strip(raw), <<>>, pct, disk)]]]

\* one pass of `for raw in fh`: any sample line is read; the reading goes on
\* while no exception was raised, within files that are made of the flag
\* lines up to their last line
ReadFioLine ==
    /\ ~fio_raised
    /\ Len(fio_lines) < MaxFioLines
    /\ \A i \in 1..Len(fio_lines) : fio_lines[i] \in FioFlagLines
    /\ \E raw \in FioLineSamples :
         \E r \in {LineEffect[raw][pct_mode][disk_section]} :
           /\ fio_lines' = Append(fio_lines, raw)
           /\ out' = out \o r.out
           /\ pct_mode' = r.pct_mode
           /\ disk_section' = r.disk_section
           /\ fio_raised' = r.raised
    /\ UNCHANGED <<splitVars, sumVars, bwVars, keyVars, diskVars>>

(***************************************************************************)
(* The variables of the parts a specification does not run stay at these   *)
(* values.                                                                 *)
(***************************************************************************)
SumIdle ==
    /\ file_no = 1
    /\ rec_no = 0
    /\ rec = None
    /\ summary = None
    /\ aborted = FALSE
    /\ current_run = None
    /\ rendered = None

BwIdle == bw_parts = None /\ bw_val = "" /\ bw_res = None

KeyIdle == key_in = "" /\ key_out = None /\ key_again = None

DiskIdle == dev = "" /\ rest = "" /\ disk_out = None

(***************************************************************************)
(* SpecSplit: parse_consolidated over every file of at most MaxLines lines. *)
(***************************************************************************)
InitSplit == SplitInit /\ SumIdle /\ BwIdle /\ KeyIdle /\ DiskIdle /\ FileInit

NextSplit == ReadLine \/ EndOfInput

SpecSplit == InitSplit /\ [][NextSplit]_vars

(***************************************************************************)
(* SpecSum: main's loop over the inputs, summarize_file's loop over the     *)
(* records, summarize_record on each.                                      *)
(***************************************************************************)
InitSum == SplitInit /\ SumIdle /\ BwIdle /\ KeyIdle /\ DiskIdle /\ FileInit

NextSum == NextRecord \/ SummarizeRecord \/ RenderRecord \/ NextInput

SpecSum == InitSum /\ [][NextSum]_vars

(***************************************************************************)
(* SpecBw: bw_to_gbps on one string.                                       *)
(***************************************************************************)
InitBw == SplitInit /\ SumIdle /\ BwInit /\ KeyIdle /\ DiskIdle /\ FileInit

NextBw == BwToGbps

SpecBw == InitBw /\ [][NextBw]_vars

(***************************************************************************)
(* SpecKey: normalize_key on every string of at most MaxKeyLen characters,  *)
(* and again on its result.                                                *)
(***************************************************************************)
InitKey == SplitInit /\ SumIdle /\ BwIdle /\ KeyInit /\ DiskIdle /\ FileInit

NextKey == NormalizeKey \/ NormalizeAgain

SpecKey == InitKey /\ [][NextKey]_vars

(***************************************************************************)
(* SpecDisk: parse_disk_stats on every <rest> of at most MaxRestLen         *)
(* characters.                                                             *)
(***************************************************************************)
InitDisk == SplitInit /\ SumIdle /\ BwIdle /\ KeyIdle /\ DiskInit /\ FileInit

NextDisk == ParseDiskStats

SpecDisk == InitDisk /\ [][NextDisk]_vars

(***************************************************************************)
(* SpecFile: parse_file over fio outputs of at most MaxFioLines lines.      *)
(***************************************************************************)
InitFile == SplitInit /\ SumIdle /\ BwIdle /\ KeyIdle /\ DiskIdle /\ FileInit

NextFile == ReadFioLine

SpecFile == InitFile /\ [][NextFile]_vars

(***************************************************************************)
(* The claims.                                                             *)
(***************************************************************************)
\* the index of the last run-marker line before line f, 0 when there is none
LastRunMarkerBefore(f) ==
    LET js == {j \in 1..(f - 1) : IsRunMarker(lines[j])}
    IN  IF js = {} THEN 0 ELSE CHOOSE j \in js : \A x \in js : x <= j

\* the last-occurrence-wins fold of the key=value lines strictly between lines f and e
ExpectedMetrics(f, e) ==
    LET idx  == {j \in (f + 1)..(e - 1) : parse_key_val(lines[j]) # None}
        key(j) == parse_key_val(lines[j])[1][1]
        last(k) == CHOOSE j \in idx : key(j) = k /\ \A x \in idx : key(x) = k => x <= j
    IN  [k \in {key(j) : j \in idx} |-> parse_key_val(lines[last(k)])[1][2]]

IsBoundary(line) == IsRunMarker(line) \/ IsFileMarker(line)

\* C1, first half: every emitted record has a run number, a filename and a
\* non-empty metrics mapping; the spec's example (RUN #1, '-- a.txt --', no
\* metric line, RUN #2) has produced no record and stands in run 2.
C1_RecordsComplete ==
    /\ \A i \in 1..Len(records) :
          /\ records[i].run # None
          /\ records[i].file # None
          /\ DOMAIN records[i].metrics # {}
    /\ lines = <<"~~~~~~~ RUN #1 ~~~~~~~", "-- a.txt --", "~~~~~~~ RUN #2 ~~~~~~~">>
          => records = <<>> /\ run_num = Some(2)

\* C1, second half: a step taken with run unknown, file unknown or no
\* accumulated metric (so every flush in such a state) leaves the record list
\* as it was; any step adds at most one record.
C1_EmptyFlushStep ==
    /\ (run_num = None \/ current_file = None \/ DOMAIN current_metrics = {})
          => records' = records
    /\ Len(records') <= Len(records) + 1

\* C1: the Splitter emits a record only with run, file and at least one metric
\* known; a flush at a run marker, a file marker or end of input without
\* them emits nothing.
C1_FlushDiscipline == []C1_RecordsComplete /\ [][C1_EmptyFlushStep]_vars

\* C1 witness: run 1 had a file marker and no metric line and gave no record;
\* run 2 gave one.
C1_Witness ==
    /\ eof
    /\ lines = <<"~~~~~~~ RUN #1 ~~~~~~~", "-- a.txt --", "~~~~~~~ RUN #2 ~~~~~~~",
                 "-- a.txt --", "k = 1">>
    /\ Len(records) = 1
    /\ records[1].run = Some(2)

\* C2 as claimed: every emitted record carries the run number written on the
\* most recent line that begins with the run-marker token and precedes the
\* record's file marker, and such a line exists.
C2_RunOfLatestMarker ==
    \A i \in 1..Len(records) :
        LET j == LastRunMarkerBefore(marks[i].file_at)
        IN  j >= 1 /\ records[i].run = RunSearch(lines[j])

\* C8, state part: each record's metrics mapping is the last-occurrence-wins
\* fold of the key=value lines between its file marker and the boundary that
\* flushed it, with no other boundary in between.
C8_MetricsAreFold ==
    \A i \in 1..Len(records) :
        LET f == marks[i].file_at
            e == marks[i].flush_at
        IN  /\ 1 <= f /\ f < e /\ e <= Len(lines) + 1
            /\ IsFileMarker(lines[f]) /\ ~IsRunMarker(lines[f])
            /\ \A j \in (f + 1)..(e - 1) : ~IsBoundary(lines[j])
            /\ e <= Len(lines) => IsBoundary(lines[e])
            /\ records[i].metrics = ExpectedMetrics(f, e)

\* C8, step part: no step changes or removes a record already emitted.
C8_FrozenStep ==
    /\ Len(records') >= Len(records)
    /\ \A i \in 1..Len(records) : records'[i] = records[i]

\* C8: duplicate keys resolve last-occurrence-wins, a record's metrics are
\* exactly the fold of the lines between its file marker and its flush
\* (lines before the file marker are in no record), and an emitted record
\* never changes.
C8_LastWinsFold == []C8_MetricsAreFold /\ [][C8_FrozenStep]_vars

\* C8 witness: a metric line before any marker, then a record with the key k
\* given twice, emitted with the second value, and a later line for the same
\* key that leaves it alone.
C8_Witness ==
    /\ lines = <<"k = 1", "~~~~~~~ RUN #1 ~~~~~~~", "-- a.txt --", "k = 1",
                 "k = 2\t# d">>
    /\ eof
    /\ Len(records) = 1
    /\ records[1].metrics = ("k" :> "2")

\* C3 as claimed: no exception leaves summarize_record, and the batch goes on
\* to its remaining records and inputs.
C3_NoExceptionEscapes ==
    /\ ~aborted
    /\ summary # None => ~summary[1].raised

\* a value "parses by the bandwidth-string rule": it is not empty and
\* bw_to_gbps returns a number for it
BwParses(v) ==
    v # "" /\ Let(bw_to_gbps(v), LAMBDA c : ~c.raised /\ c.value # None)

\* a value "parses by the IOPS rule"
IopsParses(v) ==
    v # "" /\ Let(iops_to_k(v), LAMBDA c : ~c.raised /\ c.value # None)

\* the first key of the preference list that the record has with a parsing value
RECURSIVE FirstParsingBw(_, _)
FirstParsingBw(m, keys) ==
    IF keys = <<>> THEN None
    ELSE IF Head(keys) \in DOMAIN m /\ BwParses(m[Head(keys)]) THEN Some(Head(keys))
    ELSE FirstParsingBw(m, Tail(keys))

RECURSIVE FirstParsingIops(_, _)
FirstParsingIops(m, keys) ==
    IF keys = <<>> THEN None
    ELSE IF Head(keys) \in DOMAIN m /\ IopsParses(m[Head(keys)]) THEN Some(Head(keys))
    ELSE FirstParsingIops(m, Tail(keys))

\* C4 as claimed: the reported throughput is that of the highest-preference
\* field among run_read_bw, run_write_bw, read_bw, write_bw whose value
\* parses, and the bw_avg fallback is used exactly when none of them parses.
C4_BwFromFirstParsing ==
    (summary # None /\ ~summary[1].raised) =>
        LET m == rec[1].metrics
            k == FirstParsingBw(m, BwKeys)
        IN  summary[1].value[1].throughput_GBps =
                IF k # None THEN bw_to_gbps(m[k[1]]).value ELSE BwWithFallback(m, None)

\* C5 as claimed: the reported kilo-IOPS is that of the first of read_iops,
\* write_iops whose value parses, and the iops_avg fallback is used exactly
\* when neither parses.
C5_IopsFromFirstParsing ==
    (summary # None /\ ~summary[1].raised) =>
        LET m == rec[1].metrics
            k == FirstParsingIops(m, IopsKeys)
        IN  summary[1].value[1].iops_k =
                IF k # None THEN iops_to_k(m[k[1]]).value ELSE IopsWithFallback(m, None)

\* the factor the claim gives each of the eight units, None for any other unit
ClaimedFactor(unit) ==
    CASE unit = "kib" -> Some(<<1024, 1>>) [] unit = "kb" -> Some(<<1000, 1>>)
      [] unit = "mib" -> Some(<<1024, 2>>) [] unit = "mb" -> Some(<<1000, 2>>)
      [] unit = "gib" -> Some(<<1024, 3>>) [] unit = "gb" -> Some(<<1000, 3>>)
      [] unit = "tib" -> Some(<<1024, 4>>) [] unit = "tb" -> Some(<<1000, 4>>)
      [] OTHER -> None

\* what the claim gives for a string put together from parts: the first
\* reading whose unit is one of the eight, by that unit's factor
ClaimedBw(parts) ==
    IF ClaimedFactor(Lower(parts.unit)) # None /\ Lower(parts.rate) = "/s"
    THEN Some(Gbps(PyFloat(parts.num).value[1], ClaimedFactor(Lower(parts.unit))[1]))
    ELSE IF parts.tail # "" THEN Some(Gbps(Fin(5752, 1), <<1000, 2>>))
    ELSE None

\* C6 as claimed: bw_to_gbps takes the first reading in one of the eight
\* units KiB, MiB, GiB, TiB, KB, MB, GB, TB, multiplies by 1024^n or 1000^n,
\* divides by 1e9, and returns no value for a string with any other unit.
C6_EightUnitsOnly ==
    (bw_res # None /\ ~bw_res[1].raised) => bw_res[1].value = ClaimedBw(bw_parts[1])

IsPositive(f) == f.k = "fin" /\ f.n > 0

\* C7 as claimed: derived latency is present exactly when iodepth parsed to a
\* number and IOPS is available and greater than zero, then equal to
\* (iodepth / iops_per_second) * 1000; with iodepth absent no error is raised.
C7_LatencyExactlyWhenPositive ==
    summary # None =>
        /\ ("iodepth" \notin DOMAIN rec[1].metrics
              \/ parse_numeric(rec[1].metrics["iodepth"]) = None)
             => ~summary[1].raised
        /\ ~summary[1].raised =>
             LET s == summary[1].value[1]
                 ok == /\ s.iodepth # None
                       /\ s.iops_k # None
                       /\ IsPositive(s.iops_k[1])
             IN  /\ s.derived_latency_ms # None <=> ok
                 /\ ok => s.derived_latency_ms =
                            Some(FMul(FDiv(s.iodepth[1], FMul(s.iops_k[1], Fin(1000, 1))),
                                      Fin(1000, 1)))

\* C9: key normalization is idempotent: normalizing the result of
\* normalize_key again returns it unchanged, for every input string.
C9_NormalizeIdempotent ==
    key_again # None => key_again = key_out

\* C9 witness: a key with surrounding blanks, a parenthesis, a percent sign, a
\* colon and an upper-case letter has been normalized twice.
C9_Witness ==
    /\ key_in = "(%:A"
    /\ key_out = Some("pct_a")
    /\ key_again = Some("pct_a")

\* the line emit writes for an entry whose key starts with disk_
DiskLine(k, v) == k \o " = " \o v \o "\t# per-disk fio disk stats"

\* the j-th key=value pair of <rest>: its entry name and its trimmed value
C10_Name(j) == "disk_" \o dev \o "_" \o normalize_key(KvFindIter(rest)[j][1])

C10_Value(j) == Strip(KvFindIter(rest)[j][2])

C10_OneSlash(j) == CountCh(C10_Value(j), "/") = 1

C10_SomeSlash(j) == CountCh(C10_Value(j), "/") >= 1

\* the output is, pair by pair and in order, two entries <name>_read and
\* <name>_write with the trimmed parts before and after the first slash for
\* the pairs that satisfy split, and the single entry <name> for the others
C10_Entries(split(_)) ==
    disk_out # None =>
        LET outl == disk_out[1]
            n == Len(KvFindIter(rest))
            at(j) == j + Cardinality({i \in 1..(j - 1) : split(i)})
        IN  /\ Len(outl) = n + Cardinality({i \in 1..n : split(i)})
            /\ \A j \in 1..n :
                 LET v == C10_Value(j)
                     i == Find(v, "/", 1)
                 IN  IF split(j)
                     THEN /\ outl[at(j)] = DiskLine(C10_Name(j) \o "_read",
                                                   Strip(SubSeq(v, 1, i - 1)))
                          /\ outl[at(j) + 1] = DiskLine(C10_Name(j) \o "_write",
                                                       Strip(SubSeq(v, i + 1, Len(v))))
                     ELSE outl[at(j)] = DiskLine(C10_Name(j), v)

\* C10 as claimed: a pair whose value contains a single '/' yields the two
\* entries _read and _write; every other value, one with more than one slash
\* included, yields the single entry disk_<dev>_<key>.
C10_SplitOnSingleSlash == C10_Entries(C10_OneSlash)

\* C10, amended: a pair whose value contains at least one '/' yields exactly
\* the two entries disk_<dev>_<key>_read and disk_<dev>_<key>_write holding the
\* trimmed parts before and after the first slash; a value with no slash
\* yields the single entry disk_<dev>_<key>.
C10_SplitOnFirstSlash == C10_Entries(C10_SomeSlash)

\* C10 witness: of two pairs, the first has a value with two slashes and has
\* been split at the first one, the second has no slash.
C10_Witness ==
    /\ rest = "merge=1/2/3, in_queue=30"
    /\ disk_out = Some(<<DiskLine("disk_sda_merge_read", "1"),
                         DiskLine("disk_sda_merge_write", "2/3"),
                         DiskLine("disk_sda_in_queue", "30")>>)

\* a line of the report shows the provenance tag
ShowsSrc(ls, tag) == \E i \in 1..Len(ls) : StartsWith(ls[i], "  (") /\ HasStr(ls[i], tag)

\* the report says n/a for the field
ShowsNA(ls, field) == \E i \in 1..Len(ls) : HasStr(ls[i], field \o "=n/a")

\* C13 as claimed, on the step that renders a record: when bw_src is shown the
\* reported throughput is not n/a and is the value the bandwidth rule gives
\* for that source, not the bw_avg fallback; likewise iops_src and kilo-IOPS
\* against the iops_avg fallback; and no provenance line is written when
\* neither source is known.
C13_RenderStep ==
    (summary # None /\ rendered' # None) =>
        LET s == summary[1].value[1]
            ls == rendered'[1]
        IN  /\ ShowsSrc(ls, "bw_src=") =>
                 /\ ~ShowsNA(ls, "throughput_GBps")
                 /\ BwParses(s.bw_source[1])
                 /\ s.throughput_GBps = bw_to_gbps(s.bw_source[1]).value
            /\ ShowsSrc(ls, "iops_src=") =>
                 /\ ~ShowsNA(ls, "iops_k")
                 /\ IopsParses(s.iops_source[1])
                 /\ s.iops_k = iops_to_k(s.iops_source[1]).value
            /\ (~Truthy(s.bw_source) /\ ~Truthy(s.iops_source)) =>
                 \A i \in 1..Len(ls) : ~StartsWith(ls[i], "  (")

C13_ProvenanceIsSource == [][C13_RenderStep]_vars

\* C12 as claimed: no line ends the pass with an error; whatever the line,
\* also one that starts like a prefix-dispatched rule and has no colon or no
\* key=value pair, the pass emits its entries and goes on to the next line.
C12_NoLineAborts == ~fio_raised

\* the lines read before the one just read
C11_Before == SubSeq(fio_lines, 1, Len(fio_lines) - 1)

\* the stripped line is empty
C11_IsBlank == [raw \in FioLineSamples |-> Strip(raw) = ""]

\* the line is a 'clat percentiles' header
C11_IsPctHeader ==
    [raw \in FioLineSamples |-> StartsWith(Lower(Strip(raw)), "clat percentiles")]

\* the line is a 'Disk stats' header
C11_IsDiskHeader == [raw \in FioLineSamples |-> HasStr(Strip(raw), "Disk stats")]

\* a header of the kind isHeader is among ls with no blank line after it
C11_HeaderSince(ls, isHeader) ==
    \E i \in 1..Len(ls) :
        /\ isHeader[ls[i]]
        /\ \A j \in (i + 1)..Len(ls) : ~C11_IsBlank[ls[j]]

\* the clat_pct_<Nth> entries of a line: the percentiles it holds
C11_PctEntries ==
    [raw \in FioLineSamples |-> parse_percentile_line(Strip(raw), "clat_pct_", <<>>)]

\* the disk_<dev>_ entries of a line of the form '<device>: <rest>'
C11_DiskEntries ==
    [raw \in FioLineSamples |->
        Let(re_disk_dev(Strip(raw)), LAMBDA m :
            IF m = None THEN <<>> ELSE parse_disk_stats(m[1][1], m[1][2], <<>>))]

\* the unprefixed entries of a line: its key=value pairs under their own keys
C11_FallbackEntries == [raw \in FioLineSamples |-> parse_kv_list(Strip(raw), "", <<>>)]

\* the stripped line begins with '|'
C11_IsBarLine == [raw \in FioLineSamples |-> StartsWith(Strip(raw), "|")]

\* a '|' row: a line that begins with '|' and holds percentiles
C11_IsPctRow ==
    [raw \in FioLineSamples |-> C11_IsBarLine[raw] /\ C11_PctEntries[raw] # <<>>]

\* a '<device>: k=v' line: a line with disk entries that no rule ahead of the
\* disk rule takes
C11_IsDevLine ==
    [raw \in FioLineSamples |->
        /\ C11_DiskEntries[raw] # <<>>
        /\ LineRules(Strip(raw), <<>>, None, TRUE).out = C11_DiskEntries[raw]]

\* no entry of es has a key that begins with prefix
C11_NonePrefixed(es, prefix) == \A i \in 1..Len(es) : ~StartsWith(es[i], prefix)

\* C11, on the flags: whenever the percentile flag is set a 'clat percentiles'
\* header was read with no blank line since, and whenever the disk-section
\* flag is set a 'Disk stats' header was read with no blank line since.
C11_FlagsFollowHeaders ==
    /\ pct_mode # None => C11_HeaderSince(fio_lines, C11_IsPctHeader)
    /\ disk_section => C11_HeaderSince(fio_lines, C11_IsDiskHeader)

\* C11, on one line read: a flag is set only by its header and cleared only by
\* a blank line; a blank line clears both flags and emits nothing; a '|' row
\* adds its clat_pct_ entries only after a header with no blank line since,
\* and its unprefixed entries otherwise; a device line adds its disk_<dev>_
\* entries only after a 'Disk stats' header with no blank line since, and its
\* unprefixed entries otherwise.
C11_LineStep ==
    (fio_lines' # fio_lines) =>
        LET raw == fio_lines'[Len(fio_lines')]
            added == SubSeq(out', Len(out) + 1, Len(out'))
            pctSince == C11_HeaderSince(fio_lines, C11_IsPctHeader)
            diskSince == C11_HeaderSince(fio_lines, C11_IsDiskHeader)
        IN  /\ C11_IsBlank[raw] => (pct_mode' = None /\ ~disk_section' /\ out' = out)
            /\ (pct_mode' # pct_mode) =>
                   IF pct_mode' = None THEN C11_IsBlank[raw] ELSE C11_IsPctHeader[raw]
            /\ (disk_section' # disk_section) =>
                   IF disk_section' THEN C11_IsDiskHeader[raw] ELSE C11_IsBlank[raw]
            /\ (C11_IsBarLine[raw] /\ added # <<>> /\ added = C11_PctEntries[raw])
                   => pctSince
            /\ (C11_IsPctRow[raw] /\ ~pctSince) => added = C11_FallbackEntries[raw]
            /\ (added # <<>> /\ added = C11_DiskEntries[raw]) => diskSince
            /\ (C11_IsDevLine[raw] /\ ~diskSince) =>
                   /\ added = C11_FallbackEntries[raw]
                   /\ C11_NonePrefixed(added, "disk_")

\* C11: the two flags are set only by their header line and cleared only by a
\* blank line, which clears both and emits nothing; a '|' row yields
\* clat_pct_<Nth> entries only if a 'clat percentiles' header occurred since
\* the last blank line, and a '<device>: k=v' line yields disk_<dev>_ entries
\* only if a 'Disk stats' header occurred since the last blank line, falling
\* to the unprefixed entries otherwise.
C11_FlagsSetByHeaderClearedByBlank ==
    [](C11_FlagsFollowHeaders) /\ [][C11_LineStep]_vars

\* C11 witness: a header, a '|' row, a blank line and the same row again have
\* been read: the first row yielded its clat_pct_ entries, the blank line
\* cleared the flag, and the second row yielded its unprefixed entries.
C11_Witness ==
    /\ fio_lines = << "    clat percentiles (usec):",
                      "     |  1.00th=[  359], 99.00th=[ 1012]", "",
                      "     |  1.00th=[  359], 99.00th=[ 1012]" >>
    /\ pct_mode = None
    /\ ~disk_section
    /\ ~fio_raised
    /\ out = << "clat_pct_1.00th = 359\t# completion latency percentile (usec)",
                "clat_pct_99.00th = 1012\t# completion latency percentile (usec)",
                "1.00th = [  359]", "99.00th = [ 1012]" >>

====
